---- MODULE Spec2Model ----
(***************************************************************************)
(* Model of the discrete-contract backtest of src/app.py: load_data,       *)
(* compute_strategy (indicators, event/season flags, the per-bar loop)     *)
(* and the trade count of main.                                            *)
(*                                                                         *)
(* Numbers.  The code works on float64.  Closes, the contract multiplier   *)
(* and the initial capital are integral here, so equity, P&L and contract  *)
(* counts are exact integers; the coefficients x, y, a, b, the cap, the    *)
(* moving averages, leverage_today and strategy_return are exact rationals *)
(* [n, d] in lowest terms with d > 0.  The coefficients and caps used are  *)
(* dyadic, so float64 holds them, and every product below 2^53, exactly;   *)
(* a correctly rounded quotient of such integers has the floor and the     *)
(* order of the exact quotient.  d = 0 is the float NaN: every ordered     *)
(* comparison with it is FALSE, as in IEEE-754 and pandas.                 *)
(* Sequences are 1-based: bar i of the model is row i-1 of the DataFrame.  *)
(***************************************************************************)
EXTENDS Integers, Sequences, FiniteSets

\* ---------------------------------------------------------------- bounds
MaxBars == 5

\* ------------------------------------------------------ program constants
initial_capital == 1000000
contract_multiplier == 10

\* ------------------------------------------------------------- arithmetic
AbsInt(v) == IF v < 0 THEN -v ELSE v

\* np.sign on an integer
Sign(v) == IF v > 0 THEN 1 ELSE IF v < 0 THEN -1 ELSE 0

RECURSIVE Gcd(_, _)
Gcd(u, v) == IF v = 0 THEN u ELSE Gcd(v, u % v)

\* the float NaN (an undefined rolling mean, a value shifted in from outside)
NaN == [n |-> 0, d |-> 0]

\* Python's None for an Optional[float]
None == [n |-> 0, d |-> -1]

IsNaN(r) == r.d = 0

\* the quotient num / den as a float: exact rational in lowest terms, den # 0
Rat(num, den) ==
    LET g == Gcd(AbsInt(num), AbsInt(den))
        s == IF den < 0 THEN -1 ELSE 1
    IN  [n |-> (s * num) \div g, d |-> (s * den) \div g]

FromInt(v) == [n |-> v, d |-> 1]

Zero == FromInt(0)

\* abs() on a float
AbsRat(r) == [n |-> AbsInt(r.n), d |-> r.d]

\* float comparisons; FALSE as soon as one side is NaN
Le(r, s) == ~IsNaN(r) /\ ~IsNaN(s) /\ r.n * s.d <= s.n * r.d

Ge(r, s) == ~IsNaN(r) /\ ~IsNaN(s) /\ r.n * s.d >= s.n * r.d

Lt(r, s) == ~IsNaN(r) /\ ~IsNaN(s) /\ r.n * s.d < s.n * r.d

\* np.floor(num / den) for den > 0, then int()
Floor(num, den) ==
    IF num >= 0 THEN num \div den ELSE -((-num + den - 1) \div den)

\* --------------------------------------------------------------- inputs
\* closes of the file: flat, rising and falling stretches, up to a factor 3
Closes == {1, 2, 3}

FastWindows == {1, 2}

SeasonWindows == {3}

Coeffs == {Rat(-5, 2), Rat(1, 1)}

MaxLeverages == {None, Zero, Rat(-1, 1)}

\* ------------------------------------------------ indicators (lines 40-50)
RECURSIVE SumRange(_, _, _)
SumRange(df, lo, hi) == IF lo > hi THEN 0 ELSE df[hi] + SumRange(df, lo, hi - 1)

\* df["close"] as a float column
CloseCol(df) == [i \in 1..Len(df) |-> FromInt(df[i])]

\* df["close"].rolling(window=w).mean(): NaN until w closes are available,
\* then the mean of the trailing w closes (the bar itself included)
Rolling(df, w) ==
    [i \in 1..Len(df) |-> IF i < w THEN NaN ELSE Rat(SumRange(df, i - w + 1, i), w)]

\* variant: the shift runs the other way and row i takes the value of row i+k
Shift_Ahead(col, k) ==
    [i \in DOMAIN col |-> IF (i + k) \in DOMAIN col THEN col[i + k] ELSE NaN]

\* Series.shift(k): row i takes the value of row i-k, NaN where there is none
Shift(col, k) ==
    [i \in DOMAIN col |-> IF (i - k) \in DOMAIN col THEN col[i - k] ELSE NaN]

\* ------------------------------------------- event / season flags (52-56)
\* variant: the crossover is tested against the first fast average only
UP_EVENT_FirstAverageOnly(df, ma5, ma10) ==
    LET c1 == Shift(CloseCol(df), 1)
        c2 == Shift(CloseCol(df), 2)
        ma5_1 == Shift(Rolling(df, ma5), 1)
        ma5_2 == Shift(Rolling(df, ma5), 2)
    IN  [i \in 1..Len(df) |-> Le(c2[i], ma5_2[i]) /\ Ge(c1[i], ma5_1[i])]

UP_EVENT(df, ma5, ma10) ==
    LET c1 == Shift(CloseCol(df), 1)
        c2 == Shift(CloseCol(df), 2)
        ma5_1 == Shift(Rolling(df, ma5), 1)
        ma5_2 == Shift(Rolling(df, ma5), 2)
        ma10_1 == Shift(Rolling(df, ma10), 1)
        ma10_2 == Shift(Rolling(df, ma10), 2)
    IN  [i \in 1..Len(df) |->
            Le(c2[i], ma5_2[i]) /\ Le(c2[i], ma10_2[i])
            /\ Ge(c1[i], ma5_1[i]) /\ Ge(c1[i], ma10_1[i])]

DOWN_EVENT(df, ma5, ma10) ==
    LET c1 == Shift(CloseCol(df), 1)
        c2 == Shift(CloseCol(df), 2)
        ma5_1 == Shift(Rolling(df, ma5), 1)
        ma5_2 == Shift(Rolling(df, ma5), 2)
        ma10_1 == Shift(Rolling(df, ma10), 1)
        ma10_2 == Shift(Rolling(df, ma10), 2)
    IN  [i \in 1..Len(df) |->
            Ge(c2[i], ma5_2[i]) /\ Ge(c2[i], ma10_2[i])
            /\ Le(c1[i], ma5_1[i]) /\ Le(c1[i], ma10_1[i])]

SEASON_UP(df, ma60) ==
    LET c1 == Shift(CloseCol(df), 1)
        ma60_1 == Shift(Rolling(df, ma60), 1)
    IN  [i \in 1..Len(df) |-> Ge(c1[i], ma60_1[i])]

\* variant: the flag is the negation of SEASON_UP, also where the average is NaN
SEASON_DOWN_Negation(df, ma60) ==
    LET c1 == Shift(CloseCol(df), 1)
        ma60_1 == Shift(Rolling(df, ma60), 1)
    IN  [i \in 1..Len(df) |-> ~Ge(c1[i], ma60_1[i])]

SEASON_DOWN(df, ma60) ==
    LET c1 == Shift(CloseCol(df), 1)
        ma60_1 == Shift(Rolling(df, ma60), 1)
    IN  [i \in 1..Len(df) |-> Lt(c1[i], ma60_1[i])]

\* --------------------------------------------- the per-bar loop (58-125)
\* variant: within a season the DOWN event is tested before the UP event
Target_DownFirst(up, down, season_up, season_down, x, y, a, b) ==
    IF down /\ season_up THEN y
    ELSE IF up /\ season_up THEN x
    ELSE IF down /\ season_down THEN b
    ELSE IF up /\ season_down THEN a
    ELSE None

\* target of the bar: the first matching combination, None when none matches
Target(up, down, season_up, season_down, x, y, a, b) ==
    IF up /\ season_up THEN x
    ELSE IF down /\ season_up THEN y
    ELSE IF up /\ season_down THEN a
    ELSE IF down /\ season_down THEN b
    ELSE None

\* variant: the contract multiplier is left out of the P&L
Pnl_NoMultiplier(previous_contracts, close, previous_close, multiplier) ==
    previous_contracts * (close - previous_close)

\* variant: the price difference is taken the wrong way round
Pnl_Reversed(previous_contracts, close, previous_close, multiplier) ==
    previous_contracts * (previous_close - close) * multiplier

\* cash P&L of the bar, from the contracts held since the previous bar
Pnl(previous_contracts, close, previous_close, multiplier) ==
    previous_contracts * (close - previous_close) * multiplier

StrategyReturn(previous_equity, equity_today) ==
    IF previous_equity = 0 THEN Zero
    ELSE Rat(equity_today - previous_equity, previous_equity)

\* int(np.floor((equity_today * target_leverage) / contract_value))
DesiredContracts(equity_today, target_leverage, contract_value) ==
    IF contract_value = 0 THEN 0
    ELSE Floor(equity_today * target_leverage.n, target_leverage.d * contract_value)

\* int(np.floor((equity_today * leverage_cap) / contract_value))
MaxContracts(equity_today, leverage_cap, contract_value) ==
    IF contract_value = 0 THEN 0
    ELSE Floor(equity_today * leverage_cap.n, leverage_cap.d * contract_value)

\* leverage_cap = abs(max_leverage) if max_leverage is not None else None
LeverageCap(max_leverage) ==
    IF max_leverage = None THEN None ELSE AbsRat(max_leverage)

CapEnabled(leverage_cap) == leverage_cap # None /\ leverage_cap.n > 0

\* the clamp of lines 103-111
ClampContracts(desired_contracts, equity_today, leverage_cap, contract_value) ==
    IF CapEnabled(leverage_cap)
    THEN LET max_contracts == MaxContracts(equity_today, leverage_cap, contract_value)
         IN  IF AbsInt(desired_contracts) > max_contracts
             THEN Sign(desired_contracts) * max_contracts
             ELSE desired_contracts
    ELSE desired_contracts

LeverageToday(contracts_today, contract_value, equity_today) ==
    IF equity_today = 0 THEN Zero
    ELSE Rat(contracts_today * contract_value, equity_today)

\* the state before the first row (lines 58-67); previous_close is <<>> for None
LoopInit(p) ==
    [previous_equity |-> p.initial_capital,
     previous_close |-> <<>>,
     previous_contracts |-> 0,
     previous_target_leverage |-> Zero,
     equity_values |-> <<>>,
     contracts_values |-> <<>>,
     leverage_values |-> <<>>,
     strategy_returns |-> <<>>,
     target_values |-> <<>>,
     rows |-> <<>>]

\* one iteration of the loop (lines 69-125) on a row of the frame
LoopBody(s, row, p) ==
    LET contract_value == row.close * p.contract_multiplier
        target == Target(row.UP_EVENT, row.DOWN_EVENT, row.SEASON_UP,
                         row.SEASON_DOWN, p.x, p.y, p.a, p.b)
        equity_today ==
            IF s.previous_close = <<>> THEN s.previous_equity
            ELSE s.previous_equity
                 + Pnl(s.previous_contracts, row.close, s.previous_close[1],
                       p.contract_multiplier)
        strategy_return ==
            IF s.previous_close = <<>> THEN Zero
            ELSE StrategyReturn(s.previous_equity, equity_today)
        target_leverage ==
            IF target # None THEN target ELSE s.previous_target_leverage
        desired_contracts ==
            DesiredContracts(equity_today, target_leverage, contract_value)
        contracts_today ==
            ClampContracts(desired_contracts, equity_today,
                           LeverageCap(p.max_leverage), contract_value)
        leverage_today == LeverageToday(contracts_today, contract_value, equity_today)
    IN  [previous_equity |-> equity_today,
         previous_close |-> <<row.close>>,
         previous_contracts |-> contracts_today,
         previous_target_leverage |-> target_leverage,
         equity_values |-> Append(s.equity_values, equity_today),
         contracts_values |-> Append(s.contracts_values, contracts_today),
         leverage_values |-> Append(s.leverage_values, leverage_today),
         strategy_returns |-> Append(s.strategy_returns, strategy_return),
         target_values |-> Append(s.target_values, target_leverage),
         rows |-> Append(s.rows, row)]

\* the frame the loop iterates over (lines 39-56): close, the three moving
\* averages and the four flag columns
Frame(df, p) ==
    LET m5 == Rolling(df, p.ma5)
        m10 == Rolling(df, p.ma10)
        m60 == Rolling(df, p.ma60)
        up == UP_EVENT(df, p.ma5, p.ma10)
        down == DOWN_EVENT(df, p.ma5, p.ma10)
        sup == SEASON_UP(df, p.ma60)
        sdown == SEASON_DOWN(df, p.ma60)
    IN  [i \in 1..Len(df) |->
            [close |-> df[i], ma5 |-> m5[i], ma10 |-> m10[i], ma60 |-> m60[i],
             UP_EVENT |-> up[i], DOWN_EVENT |-> down[i],
             SEASON_UP |-> sup[i], SEASON_DOWN |-> sdown[i]]]

\* for _, row in df.iterrows(): the state after the first k rows
RECURSIVE Loop(_, _, _)
Loop(frame, p, k) ==
    IF k = 0 THEN LoopInit(p) ELSE LoopBody(Loop(frame, p, k - 1), frame[k], p)

\* variant: the shifted series is not filled, its first value stays NaN
LeverageYesterday_NoFill(leverage_values) ==
    Shift(leverage_values, 1)

\* pd.Series(leverage_values).shift(1).fillna(0.0)
LeverageYesterday(leverage_values) ==
    LET shifted == Shift(leverage_values, 1)
    IN  [i \in DOMAIN leverage_values |-> IF IsNaN(shifted[i]) THEN Zero ELSE shifted[i]]

\* the result table, one record per row of df (lines 39-135).  rows are the
\* rows of df as iterrows yielded them; target_leverage is the loop's local of
\* that name, kept per bar for the properties below
compute_strategy(df, p) ==
    LET s == Loop(Frame(df, p), p, Len(df))
        yesterday == LeverageYesterday(s.leverage_values)
    IN  [i \in 1..Len(df) |->
            [close |-> s.rows[i].close,
             ma5 |-> s.rows[i].ma5, ma10 |-> s.rows[i].ma10, ma60 |-> s.rows[i].ma60,
             UP_EVENT |-> s.rows[i].UP_EVENT, DOWN_EVENT |-> s.rows[i].DOWN_EVENT,
             SEASON_UP |-> s.rows[i].SEASON_UP,
             SEASON_DOWN |-> s.rows[i].SEASON_DOWN,
             target_leverage |-> s.target_values[i],
             contracts |-> s.contracts_values[i],
             leverage_today |-> s.leverage_values[i],
             leverage_yesterday |-> yesterday[i],
             strategy_return |-> s.strategy_returns[i],
             equity |-> s.equity_values[i]]]

\* (result["leverage_today"] != result["leverage_yesterday"]).sum()
TradesCount(result) ==
    Cardinality({i \in DOMAIN result :
                    result[i].leverage_today # result[i].leverage_yesterday})

\* ---------------------------------------------------------------- state
VARIABLES df, pc, params, result, trades_count, raised

vars == <<df, pc, params, result, trades_count, raised>>

\* the widget values main passes to compute_strategy (lines 148-194)
Params ==
    [ma5 : FastWindows, ma10 : FastWindows, ma60 : SeasonWindows,
     x : Coeffs, y : Coeffs, a : Coeffs, b : Coeffs,
     initial_capital : {initial_capital},
     contract_multiplier : {contract_multiplier},
     max_leverage : MaxLeverages]

\* params before main has run
NoParams == <<>>

Init ==
    /\ df = <<>>
    /\ pc = "load"
    /\ params = NoParams
    /\ result = <<>>
    /\ trades_count = 0
    /\ raised = "none"

\* load_data, data file absent (lines 15-16)
LoadMissing ==
    /\ pc = "load"
    /\ df = <<>>
    /\ pc' = "failed"
    /\ raised' = "FileNotFoundError"
    /\ UNCHANGED <<df, params, result, trades_count>>

\* load_data, one more cleaned, date-ordered record of the file (lines 17-23)
LoadRow(c) ==
    /\ pc = "load"
    /\ Len(df) < MaxBars
    /\ df' = Append(df, c)
    /\ UNCHANGED <<pc, params, result, trades_count, raised>>

\* variant: main refuses a series shorter than the longest window plus 2
Main_FailFast(p) ==
    /\ pc = "load"
    /\ params' = p
    /\ pc' = "done"
    /\ IF Len(df) < p.ma60 + 2 \/ Len(df) < p.ma5 + 2 \/ Len(df) < p.ma10 + 2
       THEN /\ raised' = "InsufficientData"
            /\ UNCHANGED <<result, trades_count>>
       ELSE /\ result' = compute_strategy(df, p)
            /\ trades_count' = TradesCount(result')
            /\ UNCHANGED raised
    /\ UNCHANGED df

\* main on the loaded frame, with the widget values p (lines 146-204): the
\* call of compute_strategy, then the trade count
Main(p) ==
    /\ pc = "load"
    /\ params' = p
    /\ result' = compute_strategy(df, p)
    /\ trades_count' = TradesCount(result')
    /\ pc' = "done"
    /\ UNCHANGED <<df, raised>>

Next ==
    \/ LoadMissing
    \/ \E c \in Closes : LoadRow(c)
    \/ \E p \in Params : Main(p)

Spec == Init /\ [][Next]_vars

\* ------------------------------------------------------------ properties
Done == pc = "done"

Bars == DOMAIN result

\* the target leverage of the bar before bar i; the seed 0.0 before the first
PrevTarget(i) == IF i = 1 THEN Zero ELSE result[i - 1].target_leverage

HasEvent(i) == result[i].UP_EVENT \/ result[i].DOWN_EVENT

RECURSIVE ChangesUpTo(_, _)
ChangesUpTo(table, k) ==
    IF k = 0 THEN 0
    ELSE ChangesUpTo(table, k - 1)
         + (IF table[k].leverage_today
               # (IF k = 1 THEN Zero ELSE table[k - 1].leverage_today)
            THEN 1 ELSE 0)

C7_TradesCountIsChanges ==
    Done => trades_count = ChangesUpTo(result, Len(df))

\* C7 (witness): a series that starts at 0, holds it, then changes value twice
C7_Witness ==
    /\ Done
    /\ Len(df) >= 4
    /\ result[1].leverage_today = Zero
    /\ result[2].leverage_today = Zero
    /\ trades_count = 2

\* C9: the target leverage of a bar is the coefficient of the first matching
\* combination in the order (UP & SEASON_UP -> x), (DOWN & SEASON_UP -> y),
\* (UP & SEASON_DOWN -> a), (DOWN & SEASON_DOWN -> b); when none matches, and
\* in particular on a bar without event, it is the previous bar's value, the
\* seed being 0.0.
C9_TargetFirstOrderHold ==
    Done =>
        \A i \in Bars :
            LET r == result[i]
                t == r.target_leverage
            IN  /\ t \in {params.x, params.y, params.a, params.b, PrevTarget(i)}
                /\ (r.UP_EVENT /\ r.SEASON_UP) => t = params.x
                /\ (~r.UP_EVENT /\ r.DOWN_EVENT /\ r.SEASON_UP) => t = params.y
                /\ (r.UP_EVENT /\ ~r.SEASON_UP /\ r.SEASON_DOWN) => t = params.a
                /\ (~r.UP_EVENT /\ r.DOWN_EVENT /\ ~r.SEASON_UP /\ r.SEASON_DOWN)
                       => t = params.b
                /\ ~HasEvent(i) => t = PrevTarget(i)
                /\ (~r.SEASON_UP /\ ~r.SEASON_DOWN) => t = PrevTarget(i)

\* C9 (witness): an event moves the target off the seed to its coefficient, and the next
\* bar, which carries no event, holds that value
C9_Witness ==
    /\ Done
    /\ \E i \in Bars :
        /\ i >= 2
        /\ i + 1 \in Bars
        /\ result[i].DOWN_EVENT /\ ~result[i].UP_EVENT /\ result[i].SEASON_UP
        /\ result[i - 1].target_leverage = Zero
        /\ result[i].target_leverage = params.y
        /\ ~HasEvent(i + 1)
        /\ result[i + 1].target_leverage = params.y

\* C1: with a cap C > 0 enabled, abs(leverage_today) <= C on every bar,
\* whatever the closes, the coefficients and the equity reached.
C1_LeverageWithinCap ==
    (Done /\ CapEnabled(LeverageCap(params.max_leverage))) =>
        \A i \in Bars :
            Le(AbsRat(result[i].leverage_today), LeverageCap(params.max_leverage))

\* C3: in the discrete model equity is non-negative on every bar.
C3_EquityNonNegative ==
    Done => \A i \in Bars : result[i].equity >= 0

\* C3 (amended): equity has no floor; it is non-negative on bar i whenever
\* bar i-1 closed with non-negative equity and a flat or long position worth
\* at most that equity (0 <= contracts * close * multiplier <= equity).
C3_EquityNonNegativeWhenLongUnlevered ==
    Done =>
        \A i \in Bars :
            (/\ i >= 2
             /\ result[i - 1].equity >= 0
             /\ result[i - 1].contracts >= 0
             /\ result[i - 1].contracts * result[i - 1].close * contract_multiplier
                    <= result[i - 1].equity)
                => result[i].equity >= 0

\* C3 (witness): a fully invested long position (leverage 1) loses on a falling close and
\* equity stays non-negative
C3_Witness ==
    /\ Done
    /\ \E i \in Bars :
        /\ i >= 2
        /\ result[i - 1].contracts > 0
        /\ result[i - 1].leverage_today = FromInt(1)
        /\ result[i].close < result[i - 1].close
        /\ result[i].equity >= 0
        /\ result[i].equity < result[i - 1].equity

\* the longest of the three moving-average windows
LongestWindow(p) ==
    IF p.ma60 >= p.ma5 /\ p.ma60 >= p.ma10 THEN p.ma60
    ELSE IF p.ma5 >= p.ma10 THEN p.ma5 ELSE p.ma10

\* C4: a series shorter than the longest window plus 2 lag bars is answered
\* with the input error InsufficientData and no result table.
C4_InsufficientDataReported ==
    (Done /\ Len(df) < LongestWindow(params) + 2) =>
        (raised = "InsufficientData" /\ result = <<>>)

\* C4 (amended): the bar count is never checked: the only error is load_data's
\* FileNotFoundError, raised before any bar is read; every loaded series, also
\* one shorter than the longest window plus 2, gets a result table with one
\* row per bar and no error.
C4_NoBarCountCheck ==
    /\ Done => (raised = "none" /\ Len(result) = Len(df)
                /\ \A i \in Bars : result[i].close = df[i])
    /\ raised # "none" => (raised = "FileNotFoundError" /\ df = <<>> /\ result = <<>>)

\* C4 (witness): a series too short for the longest window still yields its full table
C4_Witness ==
    /\ Done
    /\ Len(df) >= 1
    /\ Len(df) < LongestWindow(params) + 2
    /\ Len(result) = Len(df)
    /\ raised = "none"

\* C5: no stage reads ahead.  Dropping the last bar leaves every earlier row
\* of the table as it is, and replacing the last close by any other leaves the
\* last bar's event and season flags as they are.  (Every series up to MaxBars
\* is run with every configuration, so the one-bar step at each length gives
\* the rows 0..k of any two series that agree on bars 0..k.)
C5_NoReadAhead ==
    (Done /\ Len(df) >= 1) =>
        LET n == Len(df)
            shorter == compute_strategy(SubSeq(df, 1, n - 1), params)
        IN  /\ \A j \in 1..(n - 1) : shorter[j] = result[j]
            /\ \A c \in Closes :
                   LET other == Frame([df EXCEPT ![n] = c], params)[n]
                   IN  /\ other.UP_EVENT = result[n].UP_EVENT
                       /\ other.DOWN_EVENT = result[n].DOWN_EVENT
                       /\ other.SEASON_UP = result[n].SEASON_UP
                       /\ other.SEASON_DOWN = result[n].SEASON_DOWN

\* C5 (witness): a table whose last bar carries an event and whose earlier bars hold a
\* position, so that flags, contracts and equity are all in play
C5_Witness ==
    /\ Done
    /\ Len(df) >= 4
    /\ HasEvent(Len(df))
    /\ result[Len(df) - 1].contracts # 0
    /\ result[Len(df)].equity # initial_capital

\* C6: no bar has both UP_EVENT and DOWN_EVENT true.
C6_EventsExclusive ==
    Done => \A i \in Bars : ~(result[i].UP_EVENT /\ result[i].DOWN_EVENT)

\* the close of bar j equals both fast moving averages of bar j
Touches(j) ==
    /\ j \in Bars
    /\ result[j].ma5 = FromInt(result[j].close)
    /\ result[j].ma10 = FromInt(result[j].close)

\* C6 (amended): UP_EVENT and DOWN_EVENT are both true on bar i exactly when
\* the close of bar i-2 and the close of bar i-1 each equal both fast moving
\* averages of their bar; on every other bar at most one of them is true.
C6_EventsCoincideExactlyOnTouch ==
    Done =>
        \A i \in Bars :
            (result[i].UP_EVENT /\ result[i].DOWN_EVENT)
                <=> (Touches(i - 2) /\ Touches(i - 1))

\* C6 (witness): both events on a bar of a flat stretch with both fast windows above 1, and
\* a bar with exactly one event in the same table
C6_Witness ==
    /\ Done
    /\ params.ma5 = 2 /\ params.ma10 = 2
    /\ \E i \in Bars : result[i].UP_EVENT /\ result[i].DOWN_EVENT
    /\ \E i \in Bars : result[i].UP_EVENT # result[i].DOWN_EVENT

\* C8: the contract count has magnitude floor(|E * L| / (P * M)) and the sign
\* of the target leverage L; with an active cap its magnitude is clamped to
\* floor(E * cap / (P * M)), sign preserved.
C8_ContractsFloorOfMagnitude ==
    Done =>
        \A i \in Bars :
            LET E == result[i].equity
                L == result[i].target_leverage
                cv == result[i].close * contract_multiplier
                cap == LeverageCap(params.max_leverage)
                magnitude == AbsInt(E * L.n) \div (L.d * cv)
                bound == Floor(E * cap.n, cap.d * cv)
                clamped ==
                    IF CapEnabled(cap) /\ magnitude > bound THEN bound ELSE magnitude
            IN  result[i].contracts = Sign(L.n) * clamped

SeasonDefined(i) == i >= 2 /\ ~IsNaN(result[i - 1].ma60)

====
